---------------------------- MODULE Spec2Model ----------------------------
(***************************************************************************)
(* The sales dashboard of src/project.py as a state machine.  One run of   *)
(* the script is a straight line: rename the mapped columns, coerce Price  *)
(* and Quantity, derive Revenue, filter, filter by date, compute the key   *)
(* metrics and the data-quality table, and build the three aggregates.     *)
(* The uploaded file and the column selectboxes are drawn in Init; every   *)
(* later widget value is drawn by the action that reads it.  A widget      *)
(* returns one of the values it offers and raises nothing; an exception of *)
(* the script itself ends the run at pc = "crashed".  Of df the model      *)
(* keeps the canonical columns Region, Product, Price, Quantity, Revenue   *)
(* and Date.                                                               *)
(*                                                                         *)
(* A value that may be missing (NaN / NaT) is a sequence of length at most *)
(* one: <<>> is missing, <<v>> is the value v.  A CSV cell is a string,    *)
(* the empty string being an empty cell.                                   *)
(***************************************************************************)
EXTENDS Integers, Sequences, FiniteSets, TLC

VARIABLES
    pc,              \* position of the script
    columns,         \* raw_df.columns after normalize_columns
    raw_rows,        \* the rows of raw_df, each a sequence of cells
    region_col, product_col, price_col, quantity_col, date_col,
    df_columns,      \* the column names of df after rename
    error,           \* the exception that ended the run, "" when none
    df,              \* the canonical table after coercion
    region_filter, product_filter, price_range, qty_range,
    filtered_nodate, \* filtered_df as line 95 leaves it
    date_range,      \* what st.date_input returned, <<>> when not shown
    filtered_df,     \* filtered_df as the rest of the script reads it
    metrics,         \* total_revenue, total_units, avg_price, avg_units
    missing,         \* the Data Quality table
    top_n, prod_rev, region_rev, trend_df

vars == << pc, columns, raw_rows, region_col, product_col, price_col,
           quantity_col, date_col, df_columns, error, df, region_filter,
           product_filter, price_range, qty_range, filtered_nodate,
           date_range, filtered_df, metrics, missing, top_n, prod_rev,
           region_rev, trend_df >>

---------------------------------------------------------------------------
(* Bounds and program constants *)

MaxRows == 2

TopNMin == 5

TopNDefault == 10

TopNMax == 30

---------------------------------------------------------------------------
(* Missing values *)

NaN == << >>

Some(v) == << v >>

Val(x) == x[1]

notna(x) == x # NaN

Range(s) == { s[i] : i \in DOMAIN s }

Min2(a, b) == IF a <= b THEN a ELSE b

---------------------------------------------------------------------------
(* Headers: a raw header is its text with some blanks on either side *)

Header(l, t, r) == [lpad |-> l, text |-> t, rpad |-> r]

strip(h) == h.text

normalize_columns(headers) == [i \in DOMAIN headers |-> strip(headers[i])]

---------------------------------------------------------------------------
(* pd.to_numeric(errors="coerce") and pd.to_datetime(errors="coerce") on   *)
(* the cell texts the model uploads.  Date cells share one format, so the  *)
(* format pandas infers from the first of them fits them all.              *)

NumeralValue == ("1" :> 1) @@ ("2" :> 2) @@ ("3" :> 3) @@ ("5" :> 5) @@ ("10" :> 10)

safe_numeric(cell) ==
    IF cell \in DOMAIN NumeralValue THEN Some(NumeralValue[cell]) ELSE NaN

Timestamp(yy, mm, dd, hh) == [y |-> yy, m |-> mm, d |-> dd, h |-> hh]

DateValue ==
       ("2024-01-05 00:00" :> Timestamp(2024, 1, 5, 0))
    @@ ("2024-01-05 10:00" :> Timestamp(2024, 1, 5, 10))
    @@ ("2024-01-31 18:00" :> Timestamp(2024, 1, 31, 18))
    @@ ("2024-02-01 00:00" :> Timestamp(2024, 2, 1, 0))

to_datetime(cell) ==
    IF cell \in DOMAIN DateValue THEN Some(DateValue[cell]) ELSE NaN

\* read_csv: the cell texts it reads as NaN, among those the model uploads
na_values == { "", "n/a" }

\* a cell of a column that is left as text
text_cell(cell) == IF cell \in na_values THEN NaN ELSE Some(cell)

\* the order of timestamps
TsKey(t) == ((t.y * 12 + t.m) * 32 + t.d) * 24 + t.h

\* Timestamp.date() followed by pd.to_datetime: midnight of the same day
date_of(t) == [t EXCEPT !.h = 0]

\* dt.to_period("D").dt.to_timestamp(): the day, not the month
day_start(t) == [t EXCEPT !.h = 0]

\* dt.to_period("M").dt.to_timestamp(): the first day of the month
month_start(t) == [t EXCEPT !.d = 1, !.h = 0]

\* the lexical order of the cell texts the model uploads
TextOrder ==
    << "1", "10", "2", "2024-01-05 00:00", "2024-01-05 10:00",
       "2024-01-31 18:00", "2024-02-01 00:00", "3", "5", "A", "B", "C",
       "East", "Ink", "Pen", "West", "abc" >>

TextRank ==
    [ t \in Range(TextOrder) |-> CHOOSE i \in DOMAIN TextOrder : TextOrder[i] = t ]

---------------------------------------------------------------------------
(* The uploaded files *)

\* the header line of the sales files, as typed (blanks around some names)
SalesHeaders ==
    << Header(0, "Region", 0), Header(1, "Product", 0), Header(0, "Price", 1),
       Header(0, "Quantity", 0), Header(0, "Date", 0) >>

\* rows of a sales file: Region, Product, Price, Quantity, Date
SalesRows ==
    { << "East", "Pen", "2",   "10", "2024-01-05 00:00" >>,
      << "West", "Pen", "abc", "5",  "2024-01-05 10:00" >>,
      << "West", "Ink", "5",   "5",  "2024-01-31 18:00" >>,
      << "East", "Ink", "5",   "",   "2024-02-01 00:00" >>,
      << "West", "Pen", "2",   "5",  "n/a" >>,
      << "West", "Ink", "2",   "5",  "2024-02-01 00:00" >>,
      << "",     "Ink", "5",   "10", "2024-01-05 10:00" >> }

\* the files of at most n data rows, no row written twice
Tables(rows, n) ==
    UNION { { t \in [1..k -> rows] : \A i, j \in 1..k : i # j => t[i] # t[j] } :
            k \in 0..n }

\* header lines of files whose columns are named otherwise
OtherHeaders ==
    { << Header(0, "Region", 0), Header(0, "Product", 0), Header(0, "Price", 0),
         Header(0, "Quantity", 0), Header(0, "Date", 0) >>,
      << Header(0, "Area", 0), Header(0, "Item", 0), Header(0, "Cost", 0),
         Header(0, "Units", 0), Header(0, "When", 0) >>,
      << Header(0, "Area", 0), Header(0, "Region", 0), Header(0, "Price", 0),
         Header(0, "Quantity", 0), Header(0, "Product", 0) >>,
      << Header(0, "Region", 0), Header(0, "Product", 0), Header(0, "Price", 0),
         Header(0, "Price", 1), Header(0, "Quantity", 0) >> }

OtherRows ==
    { << "East", "Pen", "2", "10", "2024-01-05 00:00" >> }

---------------------------------------------------------------------------
(* Column mapping, lines 32-54 *)

\* index=columns.index(name) if name in columns else 0
default_col(cols, name) == IF name \in Range(cols) THEN name ELSE cols[1]

Named(cols, name) == { i \in DOMAIN cols : cols[i] = name }

ColumnCells(rows, i) == { rows[k][i] : k \in DOMAIN rows }

\* The date selectbox offers "(none)" and every column.  The model picks
\* "(none)" or a column that has no role and holds no numerals.
DateChoices(cols, rows, picked) ==
    { "(none)" } \cup
    { c \in Range(cols) \ picked :
        \A i \in Named(cols, c) : ColumnCells(rows, i) \cap DOMAIN NumeralValue = {} }

Untouched ==
    /\ pc = "rename"
    /\ df_columns = << >>
    /\ error = ""
    /\ df = << >>
    /\ region_filter = {}
    /\ product_filter = {}
    /\ price_range = << >>
    /\ qty_range = << >>
    /\ filtered_nodate = << >>
    /\ date_range = << >>
    /\ filtered_df = << >>
    /\ metrics = << >>
    /\ missing = << >>
    /\ top_n = 0
    /\ prod_rev = << >>
    /\ region_rev = << >>
    /\ trend_df = << >>

\* A sales file is uploaded and the four role selectboxes are left at their
\* defaults.
Init ==
    /\ columns = normalize_columns(SalesHeaders)
    /\ raw_rows \in Tables(SalesRows, MaxRows)
    /\ region_col = default_col(columns, "Region")
    /\ product_col = default_col(columns, "Product")
    /\ price_col = default_col(columns, "Price")
    /\ quantity_col = default_col(columns, "Quantity")
    /\ date_col \in DateChoices(columns, raw_rows,
                                {region_col, product_col, price_col, quantity_col})
    /\ Untouched

\* Any file is uploaded and each role selectbox is at its default or at any
\* other column.
InitMapping ==
    /\ \E h \in OtherHeaders : columns = normalize_columns(h)
    /\ raw_rows \in Tables(OtherRows, 1)
    /\ region_col \in Range(columns)
    /\ product_col \in Range(columns)
    /\ price_col \in Range(columns)
    /\ quantity_col \in Range(columns)
    /\ date_col \in DateChoices(columns, raw_rows,
                                {region_col, product_col, price_col, quantity_col})
    /\ Untouched

---------------------------------------------------------------------------
(* Rename and coercion, lines 56-71 and the lookups of lines 74-75 *)

\* the dict of line 57: a later key replaces an earlier equal one
rename_to(c) ==
    IF c = quantity_col THEN "Quantity"
    ELSE IF c = price_col THEN "Price"
    ELSE IF c = product_col THEN "Product"
    ELSE IF c = region_col THEN "Region"
    ELSE c

rename(cols) == [i \in DOMAIN cols |-> rename_to(cols[i])]

has_date == date_col # "(none)"

\* df[name] is a Series only when exactly one column bears the name
TheColumn(cols, name) == CHOOSE i \in Named(cols, name) : TRUE

Lookup(cols, name, many) ==
    IF Named(cols, name) = {} THEN "KeyError"
    ELSE IF Cardinality(Named(cols, name)) > 1 THEN many
    ELSE ""

\* the first exception the script raises between lines 65 and 75
FirstError(cols) ==
    IF Lookup(cols, "Price", "TypeError") # ""
        THEN Lookup(cols, "Price", "TypeError")
    ELSE IF Lookup(cols, "Quantity", "TypeError") # ""
        THEN Lookup(cols, "Quantity", "TypeError")
    ELSE IF has_date /\ Cardinality(Named(columns, date_col)) > 1
        THEN "ValueError"
    ELSE IF Lookup(cols, "Region", "AttributeError") # ""
        THEN Lookup(cols, "Region", "AttributeError")
    ELSE Lookup(cols, "Product", "AttributeError")

\* Revenue with fillna(0) on both factors
Revenue_nan_as_zero(price, quantity) ==
    Some((IF notna(price) THEN Val(price) ELSE 0) *
         (IF notna(quantity) THEN Val(quantity) ELSE 0))

\* Revenue = Price * Quantity, NaN when either is NaN
Revenue(price, quantity) ==
    IF notna(price) /\ notna(quantity) THEN Some(Val(price) * Val(quantity)) ELSE NaN

Canonical(cols, row) ==
    LET price == safe_numeric(row[TheColumn(cols, "Price")])
        quantity == safe_numeric(row[TheColumn(cols, "Quantity")])
    IN  [ Region   |-> text_cell(row[TheColumn(cols, "Region")]),
          Product  |-> text_cell(row[TheColumn(cols, "Product")]),
          Price    |-> price,
          Quantity |-> quantity,
          Revenue  |-> Revenue(price, quantity),
          Date     |-> IF has_date
                       THEN to_datetime(row[TheColumn(columns, date_col)])
                       ELSE NaN ]

RenameCoerce ==
    /\ pc = "rename"
    /\ df_columns' = rename(columns)
    /\ error' = FirstError(df_columns')
    /\ IF error' = ""
       THEN /\ df' = [k \in DOMAIN raw_rows |-> Canonical(df_columns', raw_rows[k])]
            /\ pc' = "filters"
       ELSE /\ df' = df
            /\ pc' = "crashed"
    /\ UNCHANGED << columns, raw_rows, region_col, product_col, price_col,
                    quantity_col, date_col, region_filter, product_filter,
                    price_range, qty_range, filtered_nodate, date_range,
                    filtered_df, metrics, missing, top_n, prod_rev,
                    region_rev, trend_df >>

---------------------------------------------------------------------------
(* Filters, lines 73-95 *)

\* sorted(df[name].dropna().unique()), as the set of its values
values_of(rows, name) ==
    { Val(rows[k][name]) : k \in { j \in DOMAIN rows : notna(rows[j][name]) } }

SetMin(S) == CHOOSE x \in S : \A y \in S : x <= y

SetMax(S) == CHOOSE x \in S : \A y \in S : y <= x

\* float(df[name].min()) if pd.notna(...) else 0.0, lines 80-85
slider_min(rows, name) ==
    IF values_of(rows, name) = {} THEN 0 ELSE SetMin(values_of(rows, name))

slider_max(rows, name) ==
    IF values_of(rows, name) = {} THEN 0 ELSE SetMax(values_of(rows, name))

\* The range slider returns any pair within its bounds; the model moves each
\* handle to a bound or to a value of the column.
slider(lo, hi, stops) ==
    { << a, b >> : a \in { lo, hi } \cup stops, b \in { lo, hi } \cup stops } \cap
    { r \in (lo..hi) \X (lo..hi) : r[1] <= r[2] }

\* Series.isin(selected): NaN is in no selection drawn from the non-NaN values
isin(x, selected) == notna(x) /\ Val(x) \in selected

\* between with inclusive="neither"
between_exclusive(x, lo, hi) == notna(x) /\ lo < Val(x) /\ Val(x) < hi

\* Series.between(lo, hi, inclusive="both"): NaN is between nothing
between(x, lo, hi) == notna(x) /\ lo <= Val(x) /\ Val(x) <= hi

\* the mask without the Quantity range
Keeps_without_quantity(r, regions, products, prices, quantities) ==
    /\ isin(r.Region, regions)
    /\ isin(r.Product, products)
    /\ between(r.Price, prices[1], prices[2])

\* the boolean mask of lines 91-94 for one row
Keeps(r, regions, products, prices, quantities) ==
    /\ isin(r.Region, regions)
    /\ isin(r.Product, products)
    /\ between(r.Price, prices[1], prices[2])
    /\ between(r.Quantity, quantities[1], quantities[2])

\* df[mask.shift(1)]: each row is kept when the row before it matches
FilterEngine_shifted_mask(rows, regions, products, prices, quantities) ==
    LET tagged == [ k \in DOMAIN rows |->
                      [ row |-> rows[k],
                        keep |-> k > 1 /\ Keeps(rows[k - 1], regions, products,
                                                prices, quantities) ] ]
        kept == SelectSeq(tagged, LAMBDA t : t.keep)
    IN  [ k \in DOMAIN kept |-> kept[k].row ]

\* df[mask]: the rows whose mask is true, in order
FilterEngine(rows, regions, products, prices, quantities) ==
    SelectSeq(rows, LAMBDA r : Keeps(r, regions, products, prices, quantities))

ApplyFilters ==
    /\ pc = "filters"
    /\ region_filter' \in SUBSET values_of(df, "Region")
    /\ product_filter' \in SUBSET values_of(df, "Product")
    /\ price_range' \in slider(slider_min(df, "Price"), slider_max(df, "Price"),
                               values_of(df, "Price"))
    /\ qty_range' \in slider(slider_min(df, "Quantity"), slider_max(df, "Quantity"),
                             values_of(df, "Quantity"))
    /\ filtered_nodate' =
         FilterEngine(df, region_filter', product_filter', price_range', qty_range')
    /\ filtered_df' = filtered_nodate'
    /\ pc' = "dates"
    /\ UNCHANGED << columns, raw_rows, region_col, product_col, price_col,
                    quantity_col, date_col, df_columns, error, df, date_range,
                    metrics, missing, top_n, prod_rev, region_rev, trend_df >>

---------------------------------------------------------------------------
(* Date range, lines 97-107 *)

dates_of(rows) == values_of(rows, "Date")

\* Series.min() / Series.max() of timestamps, NaT when there is none
date_min(rows) ==
    IF dates_of(rows) = {} THEN NaN
    ELSE Some(CHOOSE t \in dates_of(rows) : \A u \in dates_of(rows) : TsKey(t) <= TsKey(u))

date_max(rows) ==
    IF dates_of(rows) = {} THEN NaN
    ELSE Some(CHOOSE t \in dates_of(rows) : \A u \in dates_of(rows) : TsKey(u) <= TsKey(t))

\* the value st.date_input starts with, line 101
default_date_range(rows) ==
    << date_of(Val(date_min(rows))), date_of(Val(date_max(rows))) >>

\* st.date_input returns the default, any other pair of days the user picks,
\* or a single day while the second is not picked yet.  The model picks among
\* the days of the rows.
date_input(rows) ==
    LET days == { date_of(t) : t \in dates_of(rows) }
    IN  { r \in days \X days : TsKey(r[1]) <= TsKey(r[2]) }
        \cup { << date_of(Val(date_min(rows))) >> }

\* lines 105-107: a NaT compares false with everything
DateFilter(rows, start_date, end_date) ==
    SelectSeq(rows, LAMBDA r :
        /\ notna(r.Date)
        /\ TsKey(Val(r.Date)) >= TsKey(start_date)
        /\ TsKey(Val(r.Date)) <= TsKey(end_date))

FilterDates ==
    /\ pc = "dates"
    /\ IF has_date /\ notna(date_min(filtered_df)) /\ notna(date_max(filtered_df))
       THEN /\ date_range' \in date_input(filtered_df)
            /\ filtered_df' =
                 IF Len(date_range') = 2
                 THEN DateFilter(filtered_df, date_range'[1], date_range'[2])
                 ELSE filtered_df
       ELSE UNCHANGED << date_range, filtered_df >>
    /\ pc' = "metrics"
    /\ UNCHANGED << columns, raw_rows, region_col, product_col, price_col,
                    quantity_col, date_col, df_columns, error, df, region_filter,
                    product_filter, price_range, qty_range, filtered_nodate,
                    metrics, missing, top_n, prod_rev, region_rev, trend_df >>

---------------------------------------------------------------------------
(* Key metrics and data quality, lines 109-124 *)

Column(rows, name) == [k \in DOMAIN rows |-> rows[k][name]]

\* Series.sum(): NaN is skipped, the sum of nothing is 0
RECURSIVE sum(_)
sum(series) ==
    IF series = << >> THEN 0
    ELSE (IF notna(Head(series)) THEN Val(Head(series)) ELSE 0) + sum(Tail(series))

\* Series.count(): the number of values that are not NaN
count(series) == Cardinality({ k \in DOMAIN series : notna(series[k]) })

\* a mean that divides by max(count, 1)
mean_zero_when_empty(series) ==
    IF count(series) = 0 THEN Some([num |-> 0, den |-> 1])
    ELSE Some([num |-> sum(series), den |-> count(series)])

\* Series.mean(): sum / count of the values that are not NaN, NaN when there
\* is none.  The quotient is kept as the pair of its numerator and denominator.
mean(series) ==
    IF count(series) = 0 THEN NaN
    ELSE Some([num |-> sum(series), den |-> count(series)])

\* Series.isna().sum()
isna_sum(series) == Cardinality({ k \in DOMAIN series : ~notna(series[k]) })

\* the columns of df the model keeps
CanonicalColumns ==
    { "Region", "Product", "Price", "Quantity", "Revenue" } \cup
    (IF has_date THEN { "Date" } ELSE {})

MissingReport(rows) == [c \in CanonicalColumns |-> isna_sum(Column(rows, c))]

KeyMetrics ==
    /\ pc = "metrics"
    /\ metrics' = [ total_revenue |-> sum(Column(filtered_df, "Revenue")),
                    total_units   |-> sum(Column(filtered_df, "Quantity")),
                    avg_price     |-> mean(Column(filtered_df, "Price")),
                    avg_units     |-> mean(Column(filtered_df, "Quantity")) ]
    /\ missing' = MissingReport(filtered_df)
    /\ pc' = "charts"
    /\ UNCHANGED << columns, raw_rows, region_col, product_col, price_col,
                    quantity_col, date_col, df_columns, error, df, region_filter,
                    product_filter, price_range, qty_range, filtered_nodate,
                    date_range, filtered_df, top_n, prod_rev, region_rev,
                    trend_df >>

---------------------------------------------------------------------------
(* Aggregates, lines 130-167 *)

\* the keys of a groupby in ascending order: rank gives each key its place
RECURSIVE SortedKeys(_, _)
SortedKeys(keys, rank) ==
    IF keys = {} THEN << >>
    ELSE LET k == CHOOSE x \in keys : \A y \in keys : rank[x] <= rank[y]
         IN  << k >> \o SortedKeys(keys \ { k }, rank)

\* groupby(name, as_index=False)["Revenue"].sum(): one row per key that is
\* not NaN, keys ascending
groupby_sum(rows, name) ==
    LET keys == SortedKeys(values_of(rows, name), TextRank)
    IN  [ g \in DOMAIN keys |->
            [ key |-> keys[g],
              Revenue |-> sum(Column(SelectSeq(rows,
                              LAMBDA r : r[name] = Some(keys[g])), "Revenue")) ] ]

\* sort_values("Revenue") with the default ascending=True
RECURSIVE InsertAscending(_, _)
InsertAscending(sorted, g) ==
    IF sorted = << >> THEN << g >>
    ELSE IF Head(sorted).Revenue <= g.Revenue
         THEN << Head(sorted) >> \o InsertAscending(Tail(sorted), g)
         ELSE << g >> \o sorted

RECURSIVE sort_values_ascending(_)
sort_values_ascending(groups) ==
    IF groups = << >> THEN << >>
    ELSE InsertAscending(sort_values_ascending(SubSeq(groups, 1, Len(groups) - 1)),
                         groups[Len(groups)])

\* one step of the descending sort: g goes after every row that is not smaller
RECURSIVE InsertDescending(_, _)
InsertDescending(sorted, g) ==
    IF sorted = << >> THEN << g >>
    ELSE IF Head(sorted).Revenue >= g.Revenue
         THEN << Head(sorted) >> \o InsertDescending(Tail(sorted), g)
         ELSE << g >> \o sorted

\* sort_values("Revenue", ascending=False); equal sums keep their order
RECURSIVE sort_values(_)
sort_values(groups) ==
    IF groups = << >> THEN << >>
    ELSE InsertDescending(sort_values(SubSeq(groups, 1, Len(groups) - 1)),
                          groups[Len(groups)])

\* DataFrame.head(n)
head(groups, n) == SubSeq(groups, 1, Min2(n, Len(groups)))

\* lines 133-138
ProductRevenue(rows, n) == head(sort_values(groupby_sum(rows, "Product")), n)

\* lines 143-147
RegionRevenue(rows) == sort_values(groupby_sum(rows, "Region"))

\* lines 153-158: dropna(subset=["Date"]), Month, groupby("Month"), sum
TrendAggregator(rows) ==
    LET dated == SelectSeq(rows, LAMBDA r : notna(r.Date))
        months == { month_start(Val(dated[k].Date)) : k \in DOMAIN dated }
        keys == SortedKeys(months, [ m \in months |-> TsKey(m) ])
    IN  [ g \in DOMAIN keys |->
            [ Month |-> keys[g],
              Revenue |-> sum(Column(SelectSeq(dated,
                              LAMBDA r : month_start(Val(r.Date)) = keys[g]),
                              "Revenue")) ] ]

\* st.slider("Top N products", 5, 30, 10): the model leaves the default or
\* moves the slider to its lower end
TopNChoices == { n \in { TopNMin, TopNDefault } : n <= TopNMax }

Charts ==
    /\ pc = "charts"
    /\ top_n' \in TopNChoices
    /\ prod_rev' = ProductRevenue(filtered_df, top_n')
    /\ region_rev' = RegionRevenue(filtered_df)
    /\ trend_df' = IF has_date THEN TrendAggregator(filtered_df) ELSE trend_df
    /\ pc' = "done"
    /\ UNCHANGED << columns, raw_rows, region_col, product_col, price_col,
                    quantity_col, date_col, df_columns, error, df, region_filter,
                    product_filter, price_range, qty_range, filtered_nodate,
                    date_range, filtered_df, metrics, missing >>

Next ==
    \/ RenameCoerce
    \/ ApplyFilters
    \/ FilterDates
    \/ KeyMetrics
    \/ Charts

Spec == Init /\ [][Next]_vars

SpecMapping == InitMapping /\ [][Next]_vars

---------------------------------------------------------------------------
(* Properties *)

Filtered == pc \in { "dates", "metrics", "charts", "done" }

DateFiltered == pc \in { "metrics", "charts", "done" }

Coerced == pc \in { "filters", "dates", "metrics", "charts", "done" }

\* C1: the filtered table of line 95 is a subsequence of the canonical table,
\* in the same order, and holds exactly the rows whose Region and Product are
\* selected and whose Price and Quantity lie in their ranges, ends included.
C1_FilterKeepsExactlyMatchingRows ==
    Filtered =>
        LET matches(r) ==
                /\ r.Region # NaN /\ r.Region[1] \in region_filter
                /\ r.Product # NaN /\ r.Product[1] \in product_filter
                /\ r.Price # NaN
                /\ price_range[1] <= r.Price[1] /\ r.Price[1] <= price_range[2]
                /\ r.Quantity # NaN
                /\ qty_range[1] <= r.Quantity[1] /\ r.Quantity[1] <= qty_range[2]
            kept == { k \in DOMAIN df : matches(df[k]) }
            \* the place in the filtered table of the kept row k of df
            place(k) == Cardinality({ j \in kept : j <= k })
        IN  /\ Len(filtered_nodate) = Cardinality(kept)
            /\ \A k \in kept : filtered_nodate[place(k)] = df[k]
            /\ ~has_date => filtered_df = filtered_nodate

\* the first row is dropped by a Price range narrower than the data and the
\* second is kept
C1_Witness ==
    /\ pc = "done"
    /\ Len(df) = 2
    /\ filtered_nodate = << df[2] >>
    /\ df[1].Region # NaN /\ df[1].Region[1] \in region_filter
    /\ df[1].Product # NaN /\ df[1].Product[1] \in product_filter
    /\ df[1].Quantity # NaN
    /\ df[1].Price # NaN /\ df[1].Price[1] > price_range[2]

\* the sliders and the multiselects are left as they start
DefaultFilters ==
    /\ region_filter = values_of(df, "Region")
    /\ product_filter = values_of(df, "Product")
    /\ price_range = << slider_min(df, "Price"), slider_max(df, "Price") >>
    /\ qty_range = << slider_min(df, "Quantity"), slider_max(df, "Quantity") >>

\* C2: whatever the filters, the default ones included, no row whose Price or
\* Quantity is missing is in the filtered table, so every row of it has a
\* Price, a Quantity and a Revenue.
C2_NoMissingNumbersAfterFilter ==
    Filtered =>
        /\ \A k \in DOMAIN df :
               (df[k].Price = NaN \/ df[k].Quantity = NaN) =>
                   /\ \A i \in DOMAIN filtered_nodate : filtered_nodate[i] # df[k]
                   /\ \A i \in DOMAIN filtered_df : filtered_df[i] # df[k]
        /\ \A i \in DOMAIN filtered_df :
               /\ Len(filtered_df[i].Price) = 1
               /\ Len(filtered_df[i].Quantity) = 1
               /\ Len(filtered_df[i].Revenue) = 1

\* the default filters drop a row whose Price could not be parsed and keep
\* another row
C2_Witness ==
    /\ pc = "done"
    /\ DefaultFilters
    /\ \E k \in DOMAIN df : df[k].Price = NaN /\ df[k].Quantity # NaN
    /\ Len(filtered_df) >= 1
    /\ Len(filtered_df) < Len(df)

\* the place in the raw table of the column selected for a role
RawColumn(col) == CHOOSE i \in DOMAIN columns : columns[i] = col

\* C3: Revenue is Price x Quantity when both parsed and missing otherwise; a
\* Price or Quantity text that is no number becomes missing and the run goes
\* on without an exception.
C3_RevenueIsProductOrMissing ==
    /\ pc # "rename" => error = "" /\ pc # "crashed"
    /\ Coerced =>
        LET p == RawColumn(price_col)
            q == RawColumn(quantity_col)
        IN  /\ Len(df) = Len(raw_rows)
            /\ \A k \in DOMAIN df :
                /\ IF raw_rows[k][p] \in DOMAIN NumeralValue
                   THEN df[k].Price = << NumeralValue[raw_rows[k][p]] >>
                   ELSE df[k].Price = << >>
                /\ IF raw_rows[k][q] \in DOMAIN NumeralValue
                   THEN df[k].Quantity = << NumeralValue[raw_rows[k][q]] >>
                   ELSE df[k].Quantity = << >>
                /\ IF df[k].Price # << >> /\ df[k].Quantity # << >>
                   THEN df[k].Revenue = << df[k].Price[1] * df[k].Quantity[1] >>
                   ELSE df[k].Revenue = << >>

\* one row has an unparsable Price and no Revenue, the other has both numbers
C3_Witness ==
    /\ pc = "done"
    /\ \E k \in DOMAIN df :
           raw_rows[k][RawColumn(price_col)] = "abc" /\ df[k].Revenue = NaN
    /\ \E k \in DOMAIN df : df[k].Revenue = << 25 >>

\* the two rows of the scenario
ScenarioRows ==
    << << "East", "Pen", "2",   "10", "2024-01-05 00:00" >>,
       << "West", "Pen", "abc", "5",  "2024-01-05 10:00" >> >>

\* C4: on the rows (East, Pen, 2, 10), (West, Pen, "abc", 5) with the default
\* filters, Revenue is 20 and missing, the Data Quality table counts 1 missing
\* Price and the Revenue metric is 20; and for every column the Data Quality
\* table counts the rows of the canonical table that miss it.
C4_MissingReportCountsCanonicalRows ==
    /\ (pc = "done" /\ raw_rows = ScenarioRows /\ ~has_date /\ DefaultFilters) =>
           /\ [k \in DOMAIN df |-> df[k].Revenue] = << << 20 >>, << >> >>
           /\ missing["Price"] = 1
           /\ metrics.total_revenue = 20
    /\ pc = "done" =>
           \A c \in DOMAIN missing :
               missing[c] = Cardinality({ k \in DOMAIN df : df[k][c] = << >> })

\* what the code does on the scenario: the row with the unparsable Price is
\* filtered out before the Data Quality table is computed
C4_Witness ==
    /\ pc = "done" /\ raw_rows = ScenarioRows /\ ~has_date /\ DefaultFilters
    /\ [k \in DOMAIN df |-> df[k].Revenue] = << << 20 >>, << >> >>
    /\ missing["Price"] = 0
    /\ metrics.total_revenue = 20

\* the sum of Revenue over the rows of a table with a given key
RevenueOf(rows, name, key) ==
    sum([k \in DOMAIN rows |->
            IF rows[k][name] = << key >> THEN rows[k].Revenue ELSE << >>])

\* groups is the top n of the aggregate of rows by name: one group per key,
\* each with the sum of its rows, largest sum first, n groups at most, and no
\* group left out is larger than one kept
IsTopAggregate(groups, rows, name, n) ==
    LET keys == { rows[k][name][1] : k \in { j \in DOMAIN rows : rows[j][name] # << >> } }
        total == [ key \in keys |-> RevenueOf(rows, name, key) ]
        shown == { groups[g].key : g \in DOMAIN groups }
    IN  /\ \A g \in DOMAIN groups :
               groups[g].key \in keys /\ groups[g].Revenue = total[groups[g].key]
        /\ \A g, h \in DOMAIN groups : g < h =>
               groups[g].key # groups[h].key /\ groups[g].Revenue >= groups[h].Revenue
        /\ Len(groups) = IF Cardinality(keys) < n THEN Cardinality(keys) ELSE n
        /\ \A key \in keys \ shown : \A g \in DOMAIN groups : groups[g].Revenue >= total[key]

\* filtered rows whose Revenue sums by Product are A: 30, B: 50, C: 10
ScenarioProducts ==
    LET row(p, price, qty) ==
            [ Region |-> << "East" >>, Product |-> << p >>, Price |-> << price >>,
              Quantity |-> << qty >>, Revenue |-> << price * qty >>, Date |-> << >> ]
    IN  << row("A", 2, 10), row("B", 5, 10), row("C", 1, 10), row("A", 1, 10) >>

\* C5: the Product aggregate has one row per Product with its summed Revenue,
\* largest first, cut to the first N, for the N of the slider and, on the table
\* the charts are about to be drawn from, for every smaller N; N = 1 over the sums A: 30, B: 50, C: 10 gives (B, 50); the Region
\* aggregate is sorted the same way and is not cut.
C5_AggregatesSortedAndTruncated ==
    /\ ProductRevenue(ScenarioProducts, 1) = << [ key |-> "B", Revenue |-> 50 ] >>
    /\ pc = "charts" =>
           \A n \in 1 .. TopNMin :
               IsTopAggregate(ProductRevenue(filtered_df, n), filtered_df, "Product", n)
    /\ pc = "done" =>
        /\ top_n \in TopNMin .. TopNMax
        /\ IsTopAggregate(prod_rev, filtered_df, "Product", top_n)
        /\ IsTopAggregate(region_rev, filtered_df, "Region", Len(filtered_df))

\* two Products whose order by Revenue is not their order by name, so that the
\* sort moves them and N = 1 cuts one
C5_Witness ==
    /\ pc = "done"
    /\ Len(prod_rev) = 2
    /\ TextRank[prod_rev[1].key] > TextRank[prod_rev[2].key]
    /\ prod_rev[1].Revenue > prod_rev[2].Revenue
    /\ ProductRevenue(filtered_df, 1) = << prod_rev[1] >>
    /\ Len(region_rev) = 2

\* the first day of the calendar month of a timestamp
MonthOf(t) == [ y |-> t.y, m |-> t.m, d |-> 1, h |-> 0 ]

\* C6: with a Date column mapped, the trend has exactly one point per calendar
\* month of the filtered rows that have a Date, with the Revenue of the rows of
\* that month, months ascending and none twice; it is empty when no filtered
\* row has a Date.
C6_TrendOnePointPerMonthAscending ==
    (pc = "done" /\ has_date) =>
        LET dated == { k \in DOMAIN filtered_df : filtered_df[k].Date # << >> }
        IN  /\ { trend_df[g].Month : g \in DOMAIN trend_df } =
                   { MonthOf(filtered_df[k].Date[1]) : k \in dated }
            /\ \A g, h \in DOMAIN trend_df : g < h =>
                   \/ trend_df[g].Month.y < trend_df[h].Month.y
                   \/ /\ trend_df[g].Month.y = trend_df[h].Month.y
                      /\ trend_df[g].Month.m < trend_df[h].Month.m
            /\ \A g \in DOMAIN trend_df :
                   trend_df[g].Revenue =
                       sum([k \in DOMAIN filtered_df |->
                               IF k \in dated /\ MonthOf(filtered_df[k].Date[1]) = trend_df[g].Month
                               THEN filtered_df[k].Revenue ELSE << >>])
            /\ dated = {} => trend_df = << >>

\* a February row before a January row with a time of day
C6_Witness ==
    /\ pc = "done" /\ has_date
    /\ Len(filtered_df) = 2
    /\ filtered_df[1].Date = << Timestamp(2024, 2, 1, 0) >>
    /\ filtered_df[2].Date = << Timestamp(2024, 1, 31, 18) >>
    /\ Len(trend_df) = 2
    /\ trend_df[1].Month = Timestamp(2024, 1, 1, 0)

\* C7: when the filters exclude every row the run still ends: the Revenue and
\* Units totals are 0, the two means are NaN and not 0, the Product and Region
\* aggregates and the trend are empty, and the date range is not asked for.
C7_EmptyResultSet ==
    /\ (DateFiltered /\ filtered_nodate = << >>) =>
           /\ error = ""
           /\ date_range = << >>
           /\ filtered_df = << >>
    /\ (pc \in { "charts", "done" } /\ filtered_nodate = << >>) =>
           /\ metrics.total_revenue = 0
           /\ metrics.total_units = 0
           /\ metrics.avg_price = << >> /\ metrics.avg_price # << 0 >>
           /\ metrics.avg_units = << >> /\ metrics.avg_units # << 0 >>
    /\ (pc = "done" /\ filtered_nodate = << >>) =>
           /\ prod_rev = << >>
           /\ region_rev = << >>
           /\ trend_df = << >>

\* a table with rows and a Date column, all excluded by the Region selection
C7_Witness ==
    /\ pc = "done" /\ has_date
    /\ Len(df) >= 2
    /\ \E k \in DOMAIN df : df[k].Revenue # NaN /\ df[k].Date # NaN /\ df[k].Region # NaN
    /\ region_filter = {}
    /\ filtered_nodate = << >>

\* the filters of lines 90-107 with the values the widgets hold
FilterOnce(rows) ==
    LET kept == FilterEngine(rows, region_filter, product_filter, price_range, qty_range)
    IN  IF Len(date_range) = 2 THEN DateFilter(kept, date_range[1], date_range[2])
        ELSE kept

\* C8: filtering the filtered table again with the same selections and ranges
\* gives the same table.
C8_FilterIdempotent ==
    /\ Filtered =>
           FilterEngine(filtered_nodate, region_filter, product_filter,
                        price_range, qty_range) = filtered_nodate
    /\ DateFiltered =>
           /\ FilterOnce(df) = filtered_df
           /\ FilterOnce(filtered_df) = filtered_df

\* the date range has dropped one of two rows
C8_Witness ==
    /\ pc = "done"
    /\ Len(date_range) = 2
    /\ Len(filtered_nodate) = 2
    /\ Len(filtered_df) = 1

\* C9: with the date range left at its default, the days of the earliest and
\* the latest Date of the filtered rows, the date filter keeps every row that
\* has a Date, whatever its time of day, and drops only the rows without one.
C9_DefaultDateRangeKeepsDatedRows ==
    (DateFiltered /\ has_date /\ Len(date_range) = 2
        /\ date_range = default_date_range(filtered_nodate)) =>
        \E f \in [DOMAIN filtered_df -> DOMAIN filtered_nodate] :
            /\ \A i, j \in DOMAIN f : i < j => f[i] < f[j]
            /\ \A i \in DOMAIN f : filtered_df[i] = filtered_nodate[f[i]]
            /\ { f[i] : i \in DOMAIN f } =
                   { k \in DOMAIN filtered_nodate : filtered_nodate[k].Date # << >> }

\* what the code does: the only row is dated 18:00 on the last day, after the
\* midnight the default range ends at
C9_Witness ==
    /\ pc = "done" /\ has_date
    /\ Len(filtered_nodate) = 1
    /\ filtered_nodate[1].Date = << Timestamp(2024, 1, 31, 18) >>
    /\ date_range = << Timestamp(2024, 1, 31, 0), Timestamp(2024, 1, 31, 0) >>
    /\ filtered_df = << >>

\* C10: whatever existing headers the four roles are mapped to, the renamed
\* table has exactly one column named Region, one Product, one Price and one
\* Quantity, and the run goes on to coercion and filtering.
C10_RenamedTableHasEachRoleOnce ==
    pc # "rename" =>
        /\ \A name \in { "Region", "Product", "Price", "Quantity" } :
               Cardinality({ i \in DOMAIN df_columns : df_columns[i] = name }) = 1
        /\ error = ""
        /\ pc # "crashed"

\* what the code does with the headers Area, Item, Cost, Units, When and the
\* default selection: every role is the first column, the dict keeps one key,
\* and there is no Price column
C10_Witness ==
    /\ pc = "crashed"
    /\ columns = << "Area", "Item", "Cost", "Units", "When" >>
    /\ region_col = "Area" /\ product_col = "Area"
    /\ price_col = "Area" /\ quantity_col = "Area"
    /\ df_columns = << "Quantity", "Item", "Cost", "Units", "When" >>
    /\ error = "KeyError"

===========================================================================
